---- MODULE Spec2Model ----
(***************************************************************************)
(* TDarkRAG: the retrieve-then-generate pipeline (scripts/RAG.py), the     *)
(* GEval evaluation that appends to the cumulative log evaluation.csv      *)
(* (scripts/evaluation.py) and the analysis of that log                    *)
(* (scripts/analysis.py).  The three scripts are separate, sequential      *)
(* command-line programs that share only the file system.                  *)
(***************************************************************************)
EXTENDS Integers, Sequences, FiniteSets, TLC

(* ------------------------------ bounds --------------------------------- *)
\* longest question, in characters
MaxQLen == 1
\* most entries os.listdir returns
MaxFiles == 2
\* programs run one after the other in one behaviour
MaxRuns == 3
\* runs of RAG.py among them
MaxRagRuns == 2

(* --------------------------- input universes --------------------------- *)
\* one character of each class the sanitizer tells apart: alphanumeric, space,
\* underscore, hyphen, anything else
Chars == {"a", " ", "_", "-", "?"}
Alnum == {"a"}

RECURSIVE SeqsUpTo(_, _)
SeqsUpTo(S, n) ==
    IF n = 0 THEN {<<>>}
    ELSE LET shorter == SeqsUpTo(S, n - 1)
         IN  shorter \cup {Append(s, c) : s \in shorter, c \in S}

Questions == SeqsUpTo(Chars, MaxQLen) \ {<<>>}
\* "out" is a directory main may have to create, "no/out" one whose parent
\* does not exist
OutputDirs == {"out", "no/out"}
VectorStoreTypes == {"InMemory", "FAISS"}
\* the texts the LLM may answer with
Answers == {"r1", "r2"}

\* directory entries, as stem and suffixes
DirEntries == {<<"a", ".pdf">>, <<"b", ".html">>, <<"c", ".pdf", ".bak">>}

NoRepeat(s) ==
    \A j, k \in 1..Len(s) : j # k => s[j] # s[k]

Listings == {l \in SeqsUpTo(DirEntries, MaxFiles) : NoRepeat(l)}

None == <<>>
Some(v) == <<v>>

(* ------------------------------- state --------------------------------- *)
VARIABLES
    pc,            \* position of the running program, "idle" between runs
    runs,          \* programs started so far
    ragRuns,       \* runs of RAG.py started so far
    args,          \* the running program's arguments, as far as it has read them
    \* ---- the file system
    files,         \* answer files on disk: path -> text
    dirs,          \* directories that exist
    log,           \* evaluation.csv: its rows, each a sequence of fields; no row
                   \* when the file is absent or empty
    ktab,          \* results.csv, a curated copy of the log with a k_chunks column
    evalFiles,     \* annotated "[Eval]" files: path -> content
    \* ---- RAG.py
    listing,       \* what os.listdir returned
    i,             \* next entry of listing the loader handles
    documents,     \* load_documents_from_folder: documents
    notices,       \* lines "Unsupported format: ..." printed by the loader
    all_splits,    \* main: all_splits
    vector_store,  \* chunks held by the InMemoryVectorStore
    context,       \* state["context"]
    response,      \* response.content
    saved,         \* what save_response_to_file returned, None before
    output_path,   \* main: output_path, main's return value
    stages,        \* the stages the running program has entered, with their outcome
    \* ---- evaluation.py
    actual_output, \* text of the file to be evaluated
    metric_4o,     \* correctness_metric_4o: score and reason once measured
    metric_4o_mini,\* correctness_metric_4o_mini: score and reason once measured
    \* ---- analysis.py
    df,            \* the DataFrame main read
    console,       \* what plot_boxplots printed
    figure,        \* the figure plot_boxplots drew: None, or rows, filter and mode
    \* ---- history
    files0,        \* files when the running program started
    log0,          \* log when the running program started
    evalFiles0,    \* evalFiles when the running program started
    asker,         \* for each answer file, the question of the run that wrote it
    asker0,        \* asker when the running program started
    appended,      \* rows evaluate has appended, header rows not counted
    rewrites       \* times add_protein_abbreviations has rewritten the log

fsVars == <<files, dirs, log, ktab, evalFiles>>
ragVars == <<listing, i, documents, notices, all_splits, vector_store, context,
             response, saved, output_path>>
evalVars == <<actual_output, metric_4o, metric_4o_mini>>
anVars == <<df, console, figure>>
histVars == <<files0, log0, evalFiles0, asker, asker0, appended, rewrites>>
vars == <<pc, runs, ragRuns, args, stages, fsVars, ragVars, evalVars, anVars, histVars>>

NoArgs == [prog |-> "none"]

Entered(name, ok) == Append(stages, [name |-> name, ok |-> ok])

\* a program starts: what the file system held is remembered
Snapshot ==
    /\ files0' = files
    /\ log0' = log
    /\ evalFiles0' = evalFiles
    /\ asker0' = asker
    /\ UNCHANGED <<asker, appended, rewrites>>

(* --------------------------- RAG.py helpers ---------------------------- *)
Ext == <<".", "m", "d">>
HeaderLine == "# Wikipedia page\n"

endswith(filename, suffix) == Len(filename) > 0 /\ filename[Len(filename)] = suffix

\* PyPDFLoader.load: one document per page
PyPDFLoader(filename) ==
    <<[source |-> filename, page |-> 1], [source |-> filename, page |-> 2]>>

\* UnstructuredHTMLLoader.load: one document per file
UnstructuredHTMLLoader(filename) == <<[source |-> filename, page |-> 0]>>

\* the body of the loader's loop for one entry that loads: the documents it
\* adds and the notices it prints
LoaderStepNoticeAll(filename) ==
    IF endswith(filename, ".pdf")
    THEN [docs |-> PyPDFLoader(filename), notices |-> <<filename>>]
    ELSE IF endswith(filename, ".html")
    THEN [docs |-> UnstructuredHTMLLoader(filename), notices |-> <<filename>>]
    ELSE [docs |-> <<>>, notices |-> <<filename>>]

LoaderStep(filename) ==
    IF endswith(filename, ".pdf")
    THEN [docs |-> PyPDFLoader(filename), notices |-> <<>>]
    ELSE IF endswith(filename, ".html")
    THEN [docs |-> UnstructuredHTMLLoader(filename), notices |-> <<>>]
    ELSE [docs |-> <<>>, notices |-> <<filename>>]

\* whether the entry is handed to a parser, which may raise
CallsParser(filename) == endswith(filename, ".pdf") \/ endswith(filename, ".html")

isalnum(c) == c \in Alnum

sanitize_char_no_space(c) == IF isalnum(c) \/ c \in {"_", "-"} THEN c ELSE "_"

sanitize_char(c) == IF isalnum(c) \/ c \in {" ", "_", "-"} THEN c ELSE "_"

\* "".join(... for c in question) + ".md"
sanitized_filename(question) ==
    [k \in 1..Len(question) |-> sanitize_char(question[k])] \o Ext

\* str(output_dir / sanitized_filename)
PathJoin(output_dir, name) == [dir |-> output_dir, name |-> name]

\* open(file_path, "w").write(...): the file holds what this call wrote
WriteFile(fs, path, text) ==
    [p \in DOMAIN fs \cup {path} |-> IF p = path THEN text ELSE fs[p]]

\* Path.mkdir(exist_ok=True) succeeds when the directory or its parent exists
CanMkdir(d) == d \in dirs \/ d = "out"

\* RecursiveCharacterTextSplitter.split_documents: chunks of each document,
\* in document order, each with its start index
split_documents(docs) ==
    [k \in 1..Len(docs) |-> [source |-> docs[k].source, page |-> docs[k].page,
                              start_index |-> 0]]

(* --------------------------- RAG.py: main ------------------------------ *)
RagLocalsInit ==
    /\ listing = <<>>
    /\ i = 1
    /\ documents = <<>>
    /\ notices = <<>>
    /\ all_splits = <<>>
    /\ vector_store = None
    /\ context = <<>>
    /\ response = None
    /\ saved = None
    /\ output_path = None

RagLocalsReset ==
    /\ listing' = <<>>
    /\ i' = 1
    /\ documents' = <<>>
    /\ notices' = <<>>
    /\ all_splits' = <<>>
    /\ vector_store' = None
    /\ context' = <<>>

\* an exception propagates out of main: its locals are gone
RagRaise(stage) ==
    /\ stages' = Entered(stage, FALSE)
    /\ pc' = "rag_failed"
    /\ RagLocalsReset
    /\ response' = None
    /\ UNCHANGED <<saved, output_path>>

\* python RAG.py ...: main is entered; each parameter is bound where main
\* first reads it
RagStart ==
    /\ pc = "idle"
    /\ runs < MaxRuns
    /\ ragRuns < MaxRagRuns
    /\ runs' = runs + 1
    /\ ragRuns' = ragRuns + 1
    /\ args' = [prog |-> "rag"]
    /\ Snapshot
    /\ pc' = "rag_select"
    /\ UNCHANGED <<stages, fsVars, ragVars, evalVars, anVars>>

\* the vector store type: InMemory, or ValueError
RagSelectNoRaise ==
    /\ pc = "rag_select"
    /\ \E vst \in VectorStoreTypes :
          /\ args' = args @@ [vector_store_type |-> vst]
          /\ IF vst = "InMemory"
             THEN /\ vector_store' = Some(<<>>)
                  /\ stages' = Entered("select", TRUE)
             ELSE /\ vector_store' = Some(<<>>)
                  /\ stages' = Entered("select", FALSE)
          /\ pc' = "rag_listdir"
          /\ UNCHANGED <<listing, i, documents, notices, all_splits, context,
                         response, saved, output_path>>
    /\ UNCHANGED <<runs, ragRuns, fsVars, evalVars, anVars, histVars>>

RagSelect ==
    /\ pc = "rag_select"
    /\ \E vst \in VectorStoreTypes :
          /\ args' = args @@ [vector_store_type |-> vst]
          /\ IF vst = "InMemory"
             THEN /\ vector_store' = Some(<<>>)
                  /\ stages' = Entered("select", TRUE)
                  /\ pc' = "rag_listdir"
                  /\ UNCHANGED <<listing, i, documents, notices, all_splits, context,
                                 response, saved, output_path>>
             ELSE RagRaise("select")
    /\ UNCHANGED <<runs, ragRuns, fsVars, evalVars, anVars, histVars>>

\* load_documents_from_folder: os.listdir, which raises on a missing folder
RagListdir ==
    /\ pc = "rag_listdir"
    /\ \/ /\ \E l \in Listings : listing' = l
          /\ pc' = "rag_load"
          /\ i' = 1
          /\ documents' = <<>>
          /\ UNCHANGED <<stages, notices, all_splits, vector_store, context,
                         response, saved, output_path>>
       \/ RagRaise("load")
    /\ UNCHANGED <<runs, ragRuns, args, fsVars, evalVars, anVars, histVars>>

\* one iteration of the loop over the directory's entries
RagLoadEntry ==
    /\ pc = "rag_load"
    /\ i <= Len(listing)
    /\ \/ /\ documents' = documents \o LoaderStep(listing[i]).docs
          /\ notices' = notices \o LoaderStep(listing[i]).notices
          /\ i' = i + 1
          /\ UNCHANGED <<pc, stages, listing, all_splits, vector_store, context,
                         response, saved, output_path>>
       \/ /\ CallsParser(listing[i])
          /\ RagRaise("load")
    /\ UNCHANGED <<runs, ragRuns, args, fsVars, evalVars, anVars, histVars>>

\* return documents
RagLoadReturn ==
    /\ pc = "rag_load"
    /\ i > Len(listing)
    /\ stages' = Entered("load", TRUE)
    /\ pc' = "rag_chunk"
    /\ UNCHANGED <<runs, ragRuns, args, fsVars, ragVars, evalVars, anVars, histVars>>

\* text_splitter.split_documents(all_documents)
RagChunk ==
    /\ pc = "rag_chunk"
    /\ all_splits' = split_documents(documents)
    /\ stages' = Entered("chunk", TRUE)
    /\ pc' = "rag_index"
    /\ UNCHANGED <<listing, i, documents, notices, vector_store, context, response,
                   saved, output_path>>
    /\ UNCHANGED <<runs, ragRuns, args, fsVars, evalVars, anVars, histVars>>

\* vector_store.add_documents: the embedding call may raise
RagIndex ==
    /\ pc = "rag_index"
    /\ \/ /\ vector_store' = Some(all_splits)
          /\ stages' = Entered("index", TRUE)
          /\ pc' = "rag_pull"
          /\ UNCHANGED <<listing, i, documents, notices, all_splits, context,
                         response, saved, output_path>>
       \/ RagRaise("index")
    /\ UNCHANGED <<runs, ragRuns, args, fsVars, evalVars, anVars, histVars>>

\* hub.pull, building and compiling the graph, graph.stream: hub.pull may raise
RagPull ==
    /\ pc = "rag_pull"
    /\ \/ /\ pc' = "rag_retrieve"
          /\ UNCHANGED <<stages, ragVars>>
       \/ /\ pc' = "rag_failed"
          /\ RagLocalsReset
          /\ response' = None
          /\ UNCHANGED <<stages, saved, output_path>>
    /\ UNCHANGED <<runs, ragRuns, args, fsVars, evalVars, anVars, histVars>>

\* "output_path" in step, for the update a node streams: {node name: update}
StepHasOutputPath(step) == "output_path" \in DOMAIN step

\* node retrieve, and the loop body for its update
RagRetrieve ==
    /\ pc = "rag_retrieve"
    /\ \/ /\ context' = vector_store[1]
          /\ stages' = Entered("retrieve", TRUE)
          /\ LET step == [retrieve |-> [context |-> vector_store[1]]] IN
             IF StepHasOutputPath(step)
             THEN pc' = "rag_done"
             ELSE pc' = "rag_generate"
          /\ UNCHANGED <<listing, i, documents, notices, all_splits, vector_store,
                         response, saved, output_path>>
       \/ RagRaise("retrieve")
    /\ UNCHANGED <<runs, ragRuns, args, fsVars, evalVars, anVars, histVars>>

\* node generate up to llm.invoke, which may raise
RagGenerate ==
    /\ pc = "rag_generate"
    /\ \/ /\ \E r \in Answers : response' = Some(r)
          /\ stages' = Entered("generate", TRUE)
          /\ pc' = "rag_save"
          /\ UNCHANGED <<listing, i, documents, notices, all_splits, vector_store,
                         context, saved, output_path>>
       \/ RagRaise("generate")
    /\ UNCHANGED <<runs, ragRuns, args, fsVars, evalVars, anVars, histVars>>

\* save_response_to_file(output_dir, question, answer): the new files, the new
\* directories and the returned path
save_response_to_file(output_dir, question, answer) ==
    LET file_path == PathJoin(output_dir, sanitized_filename(question))
    IN  [files |-> WriteFile(files, file_path, <<HeaderLine, answer>>),
         dirs |-> dirs \cup {output_dir},
         path |-> file_path]

\* what the loop over graph.stream leaves in output_path after the update of
\* node generate
StreamedOutputPath(update) ==
    LET step == [generate |-> update] IN
    IF StepHasOutputPath(step) THEN Some(step["output_path"]) ELSE None

\* the rest of node generate (save_response_to_file and the node's update),
\* the loop body for that update, and main's return
RagSave ==
    /\ pc = "rag_save"
    /\ \E od \in OutputDirs, q \in Questions :
          /\ args' = args @@ [output_dir |-> od, question |-> q]
          /\ IF CanMkdir(od)
             THEN LET r == save_response_to_file(od, q, response[1])
                      update == [answer |-> response[1], output_path |-> r.path]
                  IN  /\ files' = r.files
                      /\ dirs' = r.dirs
                      /\ saved' = Some(r.path)
                      /\ asker' = WriteFile(asker, r.path, q)
                      /\ output_path' = StreamedOutputPath(update)
                      /\ stages' = Entered("save", TRUE)
                      /\ pc' = "rag_done"
                      /\ RagLocalsReset
                      /\ UNCHANGED response
             ELSE /\ RagRaise("save")
                  /\ UNCHANGED <<files, dirs, asker>>
    /\ UNCHANGED <<runs, ragRuns, log, ktab, evalFiles, evalVars, anVars,
                   files0, log0, evalFiles0, asker0, appended, rewrites>>

\* the process ends: main has returned output_path, or an exception has ended it
RagExit ==
    /\ pc \in {"rag_done", "rag_failed"}
    /\ pc' = "idle"
    /\ args' = NoArgs
    /\ stages' = <<>>
    /\ RagLocalsReset
    /\ response' = None
    /\ saved' = None
    /\ output_path' = None
    /\ Snapshot
    /\ UNCHANGED <<runs, ragRuns, fsVars, evalVars, anVars>>

NextRAG ==
    \/ RagStart
    \/ RagSelect
    \/ RagListdir
    \/ RagLoadEntry
    \/ RagLoadReturn
    \/ RagChunk
    \/ RagIndex
    \/ RagPull
    \/ RagRetrieve
    \/ RagGenerate
    \/ RagSave
    \/ RagExit

(* ------------------------- evaluation.py ------------------------------- *)
LogName == "evaluation.csv"
Header3 == <<"Topic", "GEval 4o score", "GEval 4o-mini score">>
Topics == {"Ferritin", "Zz"}
\* what a metric may hold after measure: its score, as csv and the f-string
\* print it, and its reason
Measured == {[score |-> "0.3", reason |-> "inaccurate"],
             [score |-> "0.8", reason |-> "accurate"]}

\* a generated page the user has put in the working directory
CwdPage == [dir |-> "", name |-> <<"p">> \o Ext]
\* an answer an earlier pipeline run has left in its output directory
OutPage == [dir |-> "out", name |-> <<"p">> \o Ext]
MissingPage == [dir |-> "", name |-> <<"q">> \o Ext]
CwdPageText == <<HeaderLine, "r0">>

\* the values csv_YN takes: a bool when the function is called, the string
\* --csv_path when the script is run
CsvArgs == {[cli |-> FALSE, flag |-> TRUE], [cli |-> FALSE, flag |-> FALSE],
            [cli |-> TRUE, csv_path |-> ""], [cli |-> TRUE, csv_path |-> LogName]}

\* if csv_YN:
TruthyAlways(v) == TRUE

Truthy(v) == IF v.cli THEN v.csv_path # "" ELSE v.flag

\* open(to_be_evaluated).read(): None when there is no such file
ReadText(path) ==
    IF path \in {CwdPage, OutPage} THEN Some(CwdPageText)
    ELSE IF path \in DOMAIN files THEN Some(files[path])
    ELSE None

\* f"[Eval]{to_be_evaluated}": the marker goes before the whole path
EvalPath(p) ==
    IF p.dir = "" THEN [dir |-> "", name |-> <<"[Eval]">> \o p.name]
    ELSE [dir |-> "[Eval]" \o p.dir, name |-> p.name]

\* what lines 47-53 write: the text, then the two labelled scores and reasons
Annotated(text, m_4o, m_4o_mini) ==
    [text |-> text,
     score_4o |-> m_4o.score, reason_4o |-> m_4o.reason,
     score_4o_mini |-> m_4o.score, reason_4o_mini |-> m_4o.reason]

\* if not rows:
NeedsHeaderAlways(rows) == TRUE

NeedsHeader(rows) == rows = <<>>

\* [keyword, correctness_metric_4o.score, correctness_metric_4o_mini.score]
LogRowSwapped(keyword, m_4o, m_4o_mini) == <<keyword, m_4o_mini.score, m_4o.score>>

LogRow(keyword, m_4o, m_4o_mini) == <<keyword, m_4o.score, m_4o_mini.score>>

\* lines 57-70: the rows of evaluation.csv after the append
AppendToLog(rows, keyword, m_4o, m_4o_mini) ==
    rows \o (IF NeedsHeader(rows) THEN <<Header3>> ELSE <<>>)
         \o <<LogRow(keyword, m_4o, m_4o_mini)>>

EvalLocalsReset ==
    /\ actual_output' = None
    /\ metric_4o' = None
    /\ metric_4o_mini' = None

EvalRaise(stage) ==
    /\ stages' = Entered(stage, FALSE)
    /\ pc' = "ev_failed"
    /\ EvalLocalsReset

\* calculate_geval_correctness is called, or evaluation.py is run
EvalStart ==
    /\ pc = "idle"
    /\ runs < MaxRuns
    /\ runs' = runs + 1
    /\ UNCHANGED ragRuns
    /\ \E p \in {CwdPage, OutPage, MissingPage} \cup DOMAIN files, kw \in Topics, c \in CsvArgs :
          args' = [prog |-> "eval", to_be_evaluated |-> p, keyword |-> kw, csv_YN |-> c]
    /\ Snapshot
    /\ pc' = "ev_read"
    /\ UNCHANGED <<stages, fsVars, ragVars, evalVars, anVars>>

\* lines 10-14: both files are read; either may be missing
EvalRead ==
    /\ pc = "ev_read"
    /\ \/ /\ ReadText(args.to_be_evaluated) # None
          /\ actual_output' = ReadText(args.to_be_evaluated)
          /\ stages' = Entered("read", TRUE)
          /\ pc' = "ev_measure_4o"
          /\ UNCHANGED <<metric_4o, metric_4o_mini>>
       \/ EvalRaise("read")
    /\ UNCHANGED <<runs, ragRuns, args, fsVars, ragVars, anVars, histVars>>

\* correctness_metric_4o.measure(test_case): the scoring call may raise
EvalMeasure4o ==
    /\ pc = "ev_measure_4o"
    /\ \/ /\ \E m \in Measured : metric_4o' = Some(m)
          /\ stages' = Entered("score_4o", TRUE)
          /\ pc' = "ev_measure_4o_mini"
          /\ UNCHANGED <<actual_output, metric_4o_mini>>
       \/ EvalRaise("score_4o")
    /\ UNCHANGED <<runs, ragRuns, args, fsVars, ragVars, anVars, histVars>>

\* correctness_metric_4o_mini.measure(test_case)
EvalMeasure4oMini ==
    /\ pc = "ev_measure_4o_mini"
    /\ \/ /\ \E m \in Measured : metric_4o_mini' = Some(m)
          /\ stages' = Entered("score_4o_mini", TRUE)
          /\ pc' = "ev_write"
          /\ UNCHANGED <<actual_output, metric_4o>>
       \/ EvalRaise("score_4o_mini")
    /\ UNCHANGED <<runs, ragRuns, args, fsVars, ragVars, anVars, histVars>>

\* lines 47-53: the annotated file; open raises when its directory is missing
EvalWrite ==
    /\ pc = "ev_write"
    /\ LET path == EvalPath(args.to_be_evaluated) IN
       IF path.dir = "" \/ path.dir \in dirs
       THEN /\ evalFiles' = WriteFile(evalFiles, path,
                               Annotated(actual_output[1], metric_4o[1], metric_4o_mini[1]))
            /\ stages' = Entered("annotate", TRUE)
            /\ pc' = "ev_log"
            /\ UNCHANGED evalVars
       ELSE /\ EvalRaise("annotate")
            /\ UNCHANGED evalFiles
    /\ UNCHANGED <<runs, ragRuns, args, files, dirs, log, ktab, ragVars, anVars,
                   histVars>>

\* lines 56-70, and the return
EvalLog ==
    /\ pc = "ev_log"
    /\ IF Truthy(args.csv_YN)
       THEN /\ log' = AppendToLog(log, args.keyword, metric_4o[1], metric_4o_mini[1])
            /\ appended' = appended + 1
            /\ stages' = Entered("log", TRUE)
       ELSE UNCHANGED <<log, appended, stages>>
    /\ pc' = "ev_done"
    /\ UNCHANGED <<runs, ragRuns, args, files, dirs, ktab, evalFiles, ragVars, evalVars, anVars,
                   files0, log0, evalFiles0, asker, asker0, rewrites>>

EvalExit ==
    /\ pc \in {"ev_done", "ev_failed"}
    /\ pc' = "idle"
    /\ args' = NoArgs
    /\ stages' = <<>>
    /\ EvalLocalsReset
    /\ Snapshot
    /\ UNCHANGED <<runs, ragRuns, fsVars, ragVars, anVars>>

(* --------------------------- analysis.py ------------------------------- *)
KName == "results.csv"
HeaderK == <<"Topic", "GEval 4o score", "GEval 4o-mini score", "k_chunks">>
KTable0 == <<HeaderK, <<"Ferritin", "0.3", "0.8", "50">>, <<"Zz", "0.8", "0.3", "100">>>>
\* values of --k_chunks / k_chunks_filter
KFilters == {"all", "50", "200"}

protein_dict ==
    <<<<"Alcohol_dehydrogenase", "ADH">>, <<"Beta_2_microglobulin", "B2M">>,
      <<"Catalase", "CAT">>, <<"Cytochrome_c", "CYTC">>, <<"Ferritin", "FT">>,
      <<"FtsZ", "FtsZ">>, <<"Green_fluorescent_protein", "GFP">>,
      <<"Hemoglobin", "HB">>, <<"Insulin", "INS">>, <<"Lactase", "LAC">>,
      <<"Myosin", "MYO">>, <<"p53", "p53">>, <<"Peripherin", "PRPH">>,
      <<"Ubiquitin", "UB">>, <<"UGGT", "UGGT">>>>

\* a missing value, as read_csv reads an absent field and to_csv writes NaN
NaN == ""

\* df["Topic"].map(protein_dict), for one topic
MapAbbreviation(topic) ==
    IF \E k \in 1..Len(protein_dict) : protein_dict[k][1] = topic
    THEN protein_dict[CHOOSE k \in 1..Len(protein_dict) : protein_dict[k][1] = topic][2]
    ELSE NaN

Pad(row, n) == row \o [k \in 1..(n - Len(row)) |-> NaN]

\* pd.read_csv: None when it raises (no file, an empty file, a row with more
\* fields than the header); rows with fewer fields are filled with NaN
read_csv(table) ==
    IF table = <<>> THEN None
    ELSE IF \E k \in 2..Len(table) : Len(table[k]) > Len(table[1]) THEN None
    ELSE Some([cols |-> table[1],
               rows |-> [k \in 1..(Len(table) - 1) |-> Pad(table[k + 1], Len(table[1]))]])

\* df.to_csv(filename, index=False)
to_csv(d) == <<d.cols>> \o d.rows

HasCol(d, name) == \E k \in 1..Len(d.cols) : d.cols[k] = name
ColIndex(d, name) == CHOOSE k \in 1..Len(d.cols) : d.cols[k] = name

\* lines 26-32: the frame with Abbreviation set and moved to second place
WithAbbreviations(d) ==
    LET t == ColIndex(d, "Topic")
        idx == SelectSeq([k \in 1..Len(d.cols) |-> k],
                         LAMBDA k : d.cols[k] \notin {"Topic", "Abbreviation"})
    IN  [cols |-> <<"Topic", "Abbreviation">> \o [j \in 1..Len(idx) |-> d.cols[idx[j]]],
         rows |-> [r \in 1..Len(d.rows) |->
                     <<d.rows[r][t], MapAbbreviation(d.rows[r][t])>>
                         \o [j \in 1..Len(idx) |-> d.rows[r][idx[j]]]]]

lower(s) == IF s \in {"all", "ALL"} THEN "all" ELSE s

\* int(k_chunks_filter), and the integer read_csv makes of a k_chunks field
ToInt(s) == CASE s = "50" -> 50 [] s = "100" -> 100 [] s = "200" -> 200 [] OTHER -> -1

\* df[df["k_chunks"] == int(k_chunks_filter)]
FilterRows(d, k_chunks_filter) ==
    SelectSeq(d.rows, LAMBDA r : ToInt(r[ColIndex(d, "k_chunks")]) = ToInt(k_chunks_filter))

\* plot_boxplots(df, save, k_chunks_filter): what it prints and draws, or that
\* it raised (KeyError: no k_chunks column)
plot_boxplots(d, save, k_chunks_filter) ==
    IF lower(k_chunks_filter) # "all" /\ ~HasCol(d, "k_chunks")
    THEN [raised |-> TRUE, console |-> <<>>, figure |-> None]
    ELSE LET rows == IF lower(k_chunks_filter) # "all"
                     THEN FilterRows(d, k_chunks_filter)
                     ELSE d.rows
         IN  IF rows = <<>>
             THEN [raised |-> FALSE,
                   console |-> <<<<"No data available for k_chunks = ", k_chunks_filter>>>>,
                   figure |-> None]
             ELSE [raised |-> FALSE,
                   console |-> IF save
                               THEN <<<<"Boxplots saved as ", k_chunks_filter>>>>
                               ELSE <<>>,
                   figure |-> Some([rows |-> rows, k_chunks |-> k_chunks_filter,
                                    mode |-> IF save THEN "save" ELSE "show"])]

AnLocalsReset ==
    /\ df' = None
    /\ console' = <<>>
    /\ figure' = None

\* python analysis.py [--boxplots [show|save]] [--abbreviation] --df_filename F
\*                    [--k_chunks K]: parse_args
AnStart ==
    /\ pc = "idle"
    /\ runs < MaxRuns
    /\ runs' = runs + 1
    /\ UNCHANGED ragRuns
    /\ \E b \in {"none", "show", "save"}, a \in BOOLEAN, f \in {LogName, KName},
          k \in KFilters :
          args' = [prog |-> "analysis", boxplots |-> b, abbreviation |-> a,
                   df_filename |-> f, k_chunks |-> k]
    /\ Snapshot
    /\ pc' = "an_read"
    /\ UNCHANGED <<stages, fsVars, ragVars, evalVars, anVars>>

\* df = pd.read_csv(args.df_filename)
AnRead ==
    /\ pc = "an_read"
    /\ LET d == IF args.df_filename = LogName THEN read_csv(log)
                ELSE read_csv(ktab)
       IN  IF d = None
           THEN /\ pc' = "an_failed"
                /\ UNCHANGED anVars
           ELSE /\ df' = d
                /\ pc' = "an_plot"
                /\ UNCHANGED <<console, figure>>
    /\ UNCHANGED <<runs, ragRuns, args, stages, fsVars, ragVars, evalVars, histVars>>

\* lines 96-98: plot_boxplots(df, save)
MainPlot(d, a) == plot_boxplots(d, a.boxplots = "save", "all")

AnPlot ==
    /\ pc = "an_plot"
    /\ IF args.boxplots # "none"
       THEN /\ console' = MainPlot(df[1], args).console
            /\ figure' = MainPlot(df[1], args).figure
       ELSE UNCHANGED <<console, figure>>
    /\ pc' = "an_abbrev"
    /\ UNCHANGED <<runs, ragRuns, args, stages, fsVars, ragVars, evalVars, df, histVars>>

\* lines 100-101: add_protein_abbreviations(df, args.df_filename)
AnAbbrev ==
    /\ pc = "an_abbrev"
    /\ IF args.abbreviation
       THEN IF args.df_filename = LogName
            THEN /\ log' = to_csv(WithAbbreviations(df[1]))
                 /\ rewrites' = rewrites + 1
                 /\ UNCHANGED ktab
            ELSE /\ ktab' = to_csv(WithAbbreviations(df[1]))
                 /\ UNCHANGED <<log, rewrites>>
       ELSE UNCHANGED <<log, ktab, rewrites>>
    /\ pc' = "an_done"
    /\ UNCHANGED <<runs, ragRuns, args, stages, files, dirs, evalFiles, ragVars,
                   evalVars, anVars, files0, log0, evalFiles0, asker, asker0,
                   appended>>

\* plot_boxplots called by a user of the module, on a frame read from a file
PlotCall ==
    /\ pc = "idle"
    /\ runs < MaxRuns
    /\ runs' = runs + 1
    /\ UNCHANGED ragRuns
    /\ \E f \in {LogName, KName}, save \in BOOLEAN, k \in KFilters :
          LET d == IF f = LogName THEN read_csv(log) ELSE read_csv(ktab)
          IN  /\ d # None
              /\ args' = [prog |-> "plot", df_filename |-> f, save |-> save,
                          k_chunks |-> k]
              /\ df' = d
              /\ console' = plot_boxplots(d[1], save, k).console
              /\ figure' = plot_boxplots(d[1], save, k).figure
              /\ pc' = IF plot_boxplots(d[1], save, k).raised
                       THEN "plot_failed" ELSE "plot_done"
    /\ Snapshot
    /\ UNCHANGED <<stages, fsVars, ragVars, evalVars>>

AnExit ==
    /\ pc \in {"an_done", "an_failed", "plot_done", "plot_failed"}
    /\ pc' = "idle"
    /\ args' = NoArgs
    /\ AnLocalsReset
    /\ Snapshot
    /\ UNCHANGED <<runs, ragRuns, stages, fsVars, ragVars, evalVars>>

(* --------------------------- specification ----------------------------- *)
Init ==
    /\ pc = "idle"
    /\ runs = 0
    /\ ragRuns = 0
    /\ args = NoArgs
    /\ stages = <<>>
    /\ files = <<>>
    /\ dirs = {"."}
    /\ log = <<>>
    /\ ktab = KTable0
    /\ evalFiles = <<>>
    /\ RagLocalsInit
    /\ actual_output = None
    /\ metric_4o = None
    /\ metric_4o_mini = None
    /\ df = None
    /\ console = <<>>
    /\ figure = None
    /\ files0 = files
    /\ log0 = log
    /\ evalFiles0 = evalFiles
    /\ asker = <<>>
    /\ asker0 = <<>>
    /\ appended = 0
    /\ rewrites = 0

NextEval ==
    \/ EvalStart
    \/ EvalRead
    \/ EvalMeasure4o
    \/ EvalMeasure4oMini
    \/ EvalWrite
    \/ EvalLog
    \/ EvalExit

NextAnalysis ==
    \/ AnStart
    \/ AnRead
    \/ AnPlot
    \/ AnAbbrev
    \/ PlotCall
    \/ AnExit

NextLog == NextEval \/ NextAnalysis

\* runs of RAG.py
SpecRAG == Init /\ [][NextRAG]_vars

\* runs of evaluation.py and analysis.py
SpecLog == Init /\ [][NextLog]_vars

\* a session of pipeline runs, or a session of evaluations and analyses: the
\* pipeline changes the answer files only, the other two the log, the results
\* file and the annotated files only
Next ==
    \/ runs = ragRuns /\ RagStart
    \/ RagSelect
    \/ RagListdir
    \/ RagLoadEntry
    \/ RagLoadReturn
    \/ RagChunk
    \/ RagIndex
    \/ RagPull
    \/ RagRetrieve
    \/ RagGenerate
    \/ RagSave
    \/ RagExit
    \/ ragRuns = 0 /\ EvalStart
    \/ EvalRead
    \/ EvalMeasure4o
    \/ EvalMeasure4oMini
    \/ EvalWrite
    \/ EvalLog
    \/ EvalExit
    \/ ragRuns = 0 /\ AnStart
    \/ AnRead
    \/ AnPlot
    \/ AnAbbrev
    \/ ragRuns = 0 /\ PlotCall
    \/ AnExit

Spec == Init /\ [][Next]_vars

\* the three programs in any order
SpecMixed == Init /\ [][NextRAG \/ NextLog]_vars

(* ------------------------------ properties ---------------------------- *)
EvalRunning == pc \in {"ev_read", "ev_measure_4o", "ev_measure_4o_mini", "ev_write", "ev_log"}

HeaderRows(t) == Cardinality({k \in 1..Len(t) : t[k] = Header3})

\* C1: as long as only evaluate has written the log, which starts absent or
\* empty: after N >= 1 evaluations with record_to_log set the log is one header
\* row, first, followed by N data rows; an evaluation that finds content in
\* the log writes no header row.
C1_HeaderWrittenOnce ==
    /\ (rewrites = 0 /\ appended >= 1) =>
          /\ log[1] = Header3
          /\ HeaderRows(log) = 1
          /\ Len(log) = appended + 1
    /\ (pc = "ev_done" /\ log0 # <<>>) => HeaderRows(log) = HeaderRows(log0)

C1_Witness ==
    /\ pc = "ev_done"
    /\ rewrites = 0
    /\ appended = 2
    /\ log0 # <<>>
    /\ Len(log) = 3

\* the record_to_log flag of the running evaluation, read off its argument
FlagSet ==
    \/ ~args.csv_YN.cli /\ args.csv_YN.flag
    \/ args.csv_YN.cli /\ args.csv_YN.csv_path # ""

\* C2: an evaluation with record_to_log set leaves every row the log had where
\* it was and adds one row at the end, <<topic, first score, second score>>
\* (after the header row when the log was empty); topics are not deduplicated.
C2_AppendsOneRowAtEnd ==
    (pc = "ev_done" /\ FlagSet) =>
        /\ Len(log) = Len(log0) + (IF log0 = <<>> THEN 2 ELSE 1)
        /\ SubSeq(log, 1, Len(log0)) = log0
        /\ log[Len(log)] = <<args.keyword, metric_4o[1].score, metric_4o_mini[1].score>>
        /\ log0 = <<>> => log[1] = Header3

\* a header and 2 rows, one of them with the topic evaluated: 3 data rows after
C2_Witness ==
    /\ pc = "ev_done"
    /\ FlagSet
    /\ Len(log0) = 3
    /\ log0[1] = Header3
    /\ \E k \in 2..3 : log0[k][1] = args.keyword
    /\ Len(log) = 4
    /\ log[4][1] = args.keyword
    /\ metric_4o[1].score # metric_4o_mini[1].score

C4_AnnotatedOwnScores ==
    pc \in {"ev_log", "ev_done"} =>
        LET f == evalFiles[EvalPath(args.to_be_evaluated)] IN
        /\ f.text = actual_output[1]
        /\ f.score_4o = metric_4o[1].score
        /\ f.reason_4o = metric_4o[1].reason
        /\ f.score_4o_mini = metric_4o_mini[1].score
        /\ f.reason_4o_mini = metric_4o_mini[1].reason

\* C5: when the answer file has been saved, main returns the path
\* save_response_to_file returned.
C5_ReturnsSavedPath ==
    (pc = "rag_done" /\ saved # None) => output_path = saved

\* C6: save returns output_dir joined with the question, every character that
\* is not alphanumeric, space, hyphen or underscore replaced by "_", plus
\* ".md"; the file then holds the header line and this call's content only,
\* whatever it held before and whichever question wrote it; a second call with
\* the same question and output_dir hits the same path; no other file changes.
C6_SavePathAndOverwrite ==
    pc = "rag_done" =>
        LET p == saved[1]
            q == args.question
        IN  /\ p.dir = args.output_dir
            /\ Len(p.name) = Len(q) + 3
            /\ \A k \in 1..Len(q) :
                  p.name[k] = (IF q[k] \in Alnum \cup {" ", "-", "_"} THEN q[k] ELSE "_")
            /\ SubSeq(p.name, Len(q) + 1, Len(q) + 3) = <<".", "m", "d">>
            /\ files[p] = <<"# Wikipedia page\n", response[1]>>
            /\ DOMAIN files = DOMAIN files0 \cup {p}
            /\ \A o \in DOMAIN files0 : o # p => files[o] = files0[o]
            /\ \A o \in DOMAIN files0 :
                  (asker0[o] = q /\ o.dir = args.output_dir) => o = p

\* a second save overwrites the file a different question wrote
C6_Witness ==
    /\ pc = "rag_done"
    /\ saved[1] \in DOMAIN files0
    /\ asker0[saved[1]] # args.question
    /\ files0[saved[1]] # files[saved[1]]

\* the rows of frame d whose k_chunks field is the filter value k
Matching(d, k) == SelectSeq(d.rows, LAMBDA r : r[ColIndex(d, "k_chunks")] = k)

\* C7: boxplots requested with a filter value: when no row matches, "no data"
\* is reported and nothing is drawn; otherwise exactly the matching rows are
\* drawn.  Both for plot_boxplots called directly and for the script.
C7_FilterIsApplied ==
    ( /\ \/ pc = "plot_done"
         \/ pc \in {"an_abbrev", "an_done"} /\ args.boxplots # "none"
      /\ args.k_chunks \notin {"all", "ALL"}
      /\ HasCol(df[1], "k_chunks") ) =>
        IF Matching(df[1], args.k_chunks) = <<>>
        THEN /\ figure = None
             /\ console = <<<<"No data available for k_chunks = ", args.k_chunks>>>>
        ELSE /\ figure # None
             /\ figure[1].rows = Matching(df[1], args.k_chunks)

Known(filename) == filename[Len(filename)] \in {".pdf", ".html"}

RECURSIVE ExpectedDocuments(_)
ExpectedDocuments(l) ==
    IF l = <<>> THEN <<>>
    ELSE (IF Head(l)[Len(Head(l))] = ".pdf" THEN PyPDFLoader(Head(l))
          ELSE IF Head(l)[Len(Head(l))] = ".html" THEN UnstructuredHTMLLoader(Head(l))
          ELSE <<>>) \o ExpectedDocuments(Tail(l))

\* C8: the loader returns the parsers' documents for the entries with a known
\* extension, concatenated in listing order; each entry with an unknown
\* extension adds no document and one notice, the others no notice; the load
\* is never aborted at an entry with an unknown extension.
C8_LoaderConcatenates ==
    /\ [](pc = "rag_load" =>
            /\ documents = ExpectedDocuments(SubSeq(listing, 1, i - 1))
            /\ notices = SelectSeq(SubSeq(listing, 1, i - 1), LAMBDA f : ~Known(f)))
    /\ [](pc = "rag_chunk" =>
            /\ documents = ExpectedDocuments(listing)
            /\ notices = SelectSeq(listing, LAMBDA f : ~Known(f)))
    /\ [][(pc = "rag_load" /\ pc' = "rag_failed") => Known(listing[i])]_vars

C8_Witness ==
    /\ pc = "rag_chunk"
    /\ Len(listing) = 2
    /\ Len(notices) = 1
    /\ ~Known(listing[1])
    /\ Len(documents) = 2

\* C9: the log stays a well-formed table: every row under the header has as
\* many fields as the header.
C9_LogWellFormed ==
    \A k \in 2..Len(log) : Len(log[k]) = Len(log[1])

RagOrder == <<"select", "load", "chunk", "index", "retrieve", "generate", "save">>
EvalOrder == <<"read", "score_4o", "score_4o_mini", "annotate", "log">>

\* C10: the stages of a run are entered in their fixed order, each at most
\* once and only after the one before has completed; after a failing stage no
\* stage is entered (no retry either) and the run has written nothing: no
\* answer file in a pipeline run, no annotated file and no log row in an
\* evaluation whose scoring failed.  An answer file is written only by a run
\* all of whose stages completed.
C10_StagesInOrderAbortOnFailure ==
    LET order == IF args.prog = "rag" THEN RagOrder
                 ELSE IF args.prog = "eval" THEN EvalOrder ELSE <<>>
        n == Len(stages)
    IN  /\ n <= Len(order)
        /\ \A k \in 1..n : stages[k].name = order[k]
        /\ \A k \in 1..(n - 1) : stages[k].ok
        /\ (n > 0 /\ ~stages[n].ok) => pc \in {"rag_failed", "ev_failed"}
        /\ pc = "rag_failed" => files = files0
        /\ (args.prog = "rag" /\ files # files0) =>
              (n = 7 /\ \A k \in 1..n : stages[k].ok)
        /\ (pc = "ev_failed" /\ n <= 3) => (evalFiles = evalFiles0 /\ log = log0)
        /\ (args.prog = "eval" /\ (evalFiles # evalFiles0 \/ log # log0)) =>
              (n >= 4 /\ stages[2].ok /\ stages[3].ok)

\* a run whose generation call failed
C10_Witness ==
    /\ pc = "rag_failed"
    /\ Len(stages) = 6
    /\ stages[6].name = "generate"
    /\ ~stages[6].ok

====
